---- MODULE Spec2Model ----
(***************************************************************************)
(* SolarSync monitoring client (src/src/monitoring.py, src/src/utils.py).  *)
(*                                                                         *)
(* The model follows class SolarSyncMonitor: the HTTP wrapper operations,  *)
(* the two insert operations of the local SQLite store and the polling     *)
(* loop monitor_all_sites.  A label of the loop names the blocking call    *)
(* the single thread is suspended in; the action that leaves the label is  *)
(* the arrival of the reply and everything the code does with it up to the *)
(* next blocking call.  The remote API, the store's faults, the wall clock *)
(* and the interrupt signal are the environment: their values are drawn    *)
(* from the small sets below.                                              *)
(***************************************************************************)
EXTENDS Integers, Sequences, FiniteSets, TLC

VARIABLES
    pc,               \* where the thread is (see Labels)
    sigint,           \* whether the interrupt signal has been delivered
    interval,         \* argument of monitor_all_sites, 0 before it is called
    sites,            \* the list "for site in sites" runs over, <<>> outside it
    idx,              \* position of the for loop in sites, 0 outside it
    sleepFor,         \* argument of the time.sleep the thread is in, else 0
    now_minute,       \* datetime.now().minute as read for the site the for
                      \* loop is at, NotRead until it is read
    production_data,  \* rows of table production_data, in insert order
    alerts,           \* rows of table alerts, in insert order
    openConns,        \* store connections opened and not closed
    lastCall,         \* the last wrapper operation: its reply and its result,
                      \* and whether SQLite failed its snapshot insert
    utilCall          \* the last call of a function of utils.py: its
                      \* arguments and its result

vars == <<pc, sigint, interval, sites, idx, sleepFor, now_minute,
          production_data, alerts, openConns, lastCall, utilCall>>

monitorVars == <<pc, sigint, interval, sites, idx, sleepFor, now_minute,
                 production_data, alerts, openConns, lastCall>>

storeVars == <<production_data, alerts, openConns>>
loopVars  == <<interval, sites, idx, sleepFor, now_minute>>

-----------------------------------------------------------------------------
(* Bounds of the model. *)

MaxSites     == 2   \* longest site list the API returns
MaxAlerts    == 2   \* longest alert list the API returns
StoreCapacity == 2  \* rows the database file takes before the disk is full
MaxOpenConns == 1   \* unclosed connections tracked

(* Program constants. *)

InterSiteDelay         == 2
DefaultInterval        == 300
AnomalyMinuteThreshold == 5

-----------------------------------------------------------------------------
(* Values.  Strings the code inspects character by character (site IDs)    *)
(* are sequences of one-character strings.  Optional values (the result of *)
(* dict.get on a key that may be missing) carry a "some" flag.             *)

Upper  == {"A","B","C","D","E","F","G","H","I","J","K","L","M",
           "N","O","P","Q","R","S","T","U","V","W","X","Y","Z"}
Digits == {"0","1","2","3","4","5","6","7","8","9"}

\* re.match(r'^VS-[A-Z]{3}-\d{3}$', s), the site-ID pattern.
MatchesSiteIdPattern(s) ==
    /\ Len(s) = 10
    /\ s[1] = "V" /\ s[2] = "S" /\ s[3] = "-"
    /\ \A i \in 4..6 : s[i] \in Upper
    /\ s[7] = "-"
    /\ \A i \in 8..10 : s[i] \in Digits

IdPDD001 == <<"V","S","-","P","D","D","-","0","0","1">>
IdBogus  == <<"b","o","g","u","s">>

NoId       == [some |-> FALSE, v |-> <<>>]
SomeId(s)  == [some |-> TRUE,  v |-> s]
NoStr      == [some |-> FALSE, v |-> ""]
SomeStr(s) == [some |-> TRUE,  v |-> s]

SiteIdArgs == {SomeId(IdPDD001), SomeId(IdBogus), NoId}

\* An element of the "sites" array: a JSON object with or without "id", or
\* a JSON value that is not an object.
SiteEntries ==
    { [isObj |-> TRUE,  id |-> SomeId(IdPDD001)],
      [isObj |-> TRUE,  id |-> SomeId(IdBogus)],
      [isObj |-> TRUE,  id |-> NoId],
      [isObj |-> FALSE, id |-> NoId] }

\* An element of the "alerts" array.
AlertEntries ==
    { [isObj |-> TRUE,  severity |-> SomeStr("high"),     site_id |-> SomeId(IdPDD001), type |-> SomeStr("overheat")],
      [isObj |-> TRUE,  severity |-> SomeStr("critical"), site_id |-> SomeId(IdBogus),  type |-> SomeStr("overheat")],
      [isObj |-> TRUE,  severity |-> SomeStr("medium"),   site_id |-> SomeId(IdPDD001), type |-> SomeStr("overheat")],
      [isObj |-> TRUE,  severity |-> NoStr,               site_id |-> SomeId(IdPDD001), type |-> SomeStr("overheat")],
      [isObj |-> FALSE, severity |-> NoStr,               site_id |-> NoId,             type |-> NoStr] }

SeqsUpTo(S, n) == UNION { [1..k -> S] : k \in 0..n }

-----------------------------------------------------------------------------
(* Replies of the remote API.  kind is "response" when an HTTP response    *)
(* came back, else the exception requests raised.  A body is what          *)
(* response.json() makes of it: shape "invalid" is a body that is not      *)
(* JSON, "object" a JSON object, "array" and "null" a truthy and a falsy   *)
(* JSON value that is not an object.  member is the value stored under the *)
(* key the operation reads ("sites", "alerts", "anomalies"): "absent",     *)
(* "list" (items holds it), or "number" / "null" (values without len()).   *)

Body(shape, member, items) == [shape |-> shape, member |-> member, items |-> items]
PlainBody(shape) == Body(shape, "absent", <<>>)

PlainBodies == { PlainBody(s) : s \in {"invalid", "object", "array", "null"} }

MemberBodies(Entries, n) ==
    { PlainBody(s) : s \in {"invalid", "object", "array"} }
      \cup { Body("object", m, <<>>) : m \in {"number", "null"} }
      \cup { Body("object", "list", l) : l \in SeqsUpTo(Entries, n) }

AnomalyEntries == { [isObj |-> TRUE], [isObj |-> FALSE] }

OtherCodes == {201, 401, 403, 404, 500}
TransportErrors == {"Timeout", "ConnectionError", "RequestException"}

\* A 200 carries any of Bodies; the other statuses carry one body each, which
\* the code does not read.
Replies(Bodies, other) ==
    { [kind |-> "response", code |-> 200, body |-> b] : b \in Bodies }
      \cup { [kind |-> "response", code |-> c, body |-> other] : c \in OtherCodes }
      \cup { [kind |-> k, code |-> 0, body |-> PlainBody("invalid")] : k \in TransportErrors }

ProductionReplies  == Replies(PlainBodies, PlainBody("object"))
StatsReplies       == Replies(PlainBodies, PlainBody("object"))
MaintenanceReplies == Replies({PlainBody("object")}, PlainBody("object"))
SitesReplies       == Replies(MemberBodies(SiteEntries, MaxSites),
                              Body("object", "list", <<>>))
AlertsReplies      == Replies(MemberBodies(AlertEntries, MaxAlerts),
                              Body("object", "list", <<>>))
AnomalyReplies     == Replies(MemberBodies(AnomalyEntries, 1),
                              Body("object", "list", <<>>))

(* Python values the wrapper operations return. *)
NoneVal        == [t |-> "None", shape |-> "",             items |-> <<>>]
JsonVal(b)     == [t |-> "json", shape |-> b.shape,        items |-> <<>>]
EmptyDict      == [t |-> "json", shape |-> "empty_object", items |-> <<>>]
ListVal(l)     == [t |-> "list", shape |-> "",             items |-> l]
EmptyList      == ListVal(<<>>)
NumberVal      == [t |-> "number", shape |-> "",           items |-> <<>>]
TrueVal        == [t |-> "bool", shape |-> "true",         items |-> <<>>]
FalseVal       == [t |-> "bool", shape |-> "false",        items |-> <<>>]

\* bool(v), as tested by "if production:" and "if alerts:".
Truthy(v) ==
    \/ v.t = "json" /\ v.shape \in {"object", "array"}
    \/ v.t = "list" /\ v.items # <<>>
    \/ v.t = "number"
    \/ v = TrueVal

\* Whether v has a method get (is a dict).
IsDict(v) == v.t = "json" /\ v.shape \in {"object", "empty_object"}

\* dict.get(key, []) on a parsed body.
MemberOrEmpty(b) ==
    CASE b.member = "absent" -> EmptyList
      [] b.member = "list"   -> ListVal(b.items)
      [] b.member = "number" -> NumberVal
      [] OTHER               -> NoneVal

\* Whether len(v) is defined.
Sized(v) == v.t = "list"

(* Exceptions.  Every class below derives from Exception; KeyboardInterrupt *)
(* derives from BaseException only.                                         *)
ExceptionClasses == TransportErrors \cup
    {"ValueError", "UnicodeEncodeError", "AttributeError", "TypeError",
     "OperationalError", "IntegrityError"}

-----------------------------------------------------------------------------
(* The local store.  st is [production_data, alerts, openConns].  fault is *)
(* what SQLite does to the operation: "none", "connect" (sqlite3.connect   *)
(* raises, no connection exists) or "execute" (the statement or the commit *)
(* raises: locked database, I/O error).  A database that holds             *)
(* StoreCapacity rows is a full disk: the insert raises.  openConns counts *)
(* the connections an operation opened and left without close().           *)

StoreFaults == {"none", "connect", "execute"}

Store(p, a, c) == [production_data |-> p, alerts |-> a, openConns |-> c]

DiskFull(st) == Len(st.production_data) + Len(st.alerts) >= StoreCapacity

\* Exit through the except clause with the connection opened: close() was
\* skipped.
Unclosed(st) == [st EXCEPT !.openConns = @ + 1]

\* _init_database: the only store operation without a try block.
\* Returns [raised, st].
_init_database(st, fault) ==
    CASE fault = "connect" -> [raised |-> TRUE, st |-> st]
      [] fault = "execute" -> [raised |-> TRUE, st |-> Unclosed(st)]
      [] OTHER             -> [raised |-> FALSE, st |-> st]

\* SwallowException that logs and re-raises.
SwallowException_reraise(t) == t

\* "except Exception as e: logger.error(...)" of the two insert operations:
\* the exception ends there.  t is [exc, st].
SwallowException(t) == [exc |-> "none", st |-> t.st]

\* TrySaveProductionData with INSERT OR REPLACE keyed by nothing: the new
\* row takes the place of the table's content.
TrySaveProductionData_replace(st, site_id, data, fault) ==
    IF fault = "connect"
    THEN [exc |-> "OperationalError", st |-> st]
    ELSE IF ~IsDict(data)
    THEN [exc |-> "AttributeError", st |-> Unclosed(st)]
    ELSE IF ~site_id.some
    THEN [exc |-> "IntegrityError", st |-> Unclosed(st)]
    ELSE IF fault = "execute" \/ DiskFull(st)
    THEN [exc |-> "OperationalError", st |-> Unclosed(st)]
    ELSE [exc |-> "none",
          st  |-> [st EXCEPT !.production_data = <<[site_id |-> site_id.v]>>]]

\* The try block of _save_production_data(site_id, data).
TrySaveProductionData(st, site_id, data, fault) ==
    IF fault = "connect"
    THEN [exc |-> "OperationalError", st |-> st]         \* nothing was opened
    ELSE IF ~IsDict(data)
    THEN [exc |-> "AttributeError", st |-> Unclosed(st)] \* data.get
    ELSE IF ~site_id.some
    THEN [exc |-> "IntegrityError", st |-> Unclosed(st)] \* site_id TEXT NOT NULL
    ELSE IF fault = "execute" \/ DiskFull(st)
    THEN [exc |-> "OperationalError", st |-> Unclosed(st)]
    ELSE [exc |-> "none",
          st  |-> [st EXCEPT !.production_data =
                      Append(@, [site_id |-> site_id.v])]]

_save_production_data(st, site_id, data, fault) ==
    SwallowException(TrySaveProductionData(st, site_id, data, fault))

\* The try block of _save_alert(alert).  resolved is the column default.
TrySaveAlert(st, alert, fault) ==
    IF fault = "connect"
    THEN [exc |-> "OperationalError", st |-> st]
    ELSE IF ~alert.site_id.some \/ ~alert.type.some \/ ~alert.severity.some
    THEN [exc |-> "IntegrityError", st |-> Unclosed(st)] \* NOT NULL columns
    ELSE IF fault = "execute" \/ DiskFull(st)
    THEN [exc |-> "OperationalError", st |-> Unclosed(st)]
    ELSE [exc |-> "none",
          st  |-> [st EXCEPT !.alerts =
                      Append(@, [site_id  |-> alert.site_id.v,
                                 severity |-> alert.severity.v,
                                 resolved |-> FALSE])]]

_save_alert(st, alert, fault) ==
    SwallowException(TrySaveAlert(st, alert, fault))

-----------------------------------------------------------------------------
(* The HTTP wrapper.  Each operation is its try block (Try...: the first   *)
(* exception it raises, or "none" and the value it returns) followed by    *)
(* its except clauses.  The result is [raised, val, st]: raised tells      *)
(* whether an exception leaves the operation.                              *)

Outcome(exc, val, st) == [exc |-> exc, val |-> val, st |-> st]
Return(exc, val, st)  == [raised |-> FALSE, exc |-> exc, val |-> val, st |-> st]
Raise(exc, st)        == [raised |-> TRUE,  exc |-> exc, val |-> NoneVal, st |-> st]

\* ExceptException narrowed to "except requests.exceptions.RequestException".
ExceptException_narrow(t, sentinel) ==
    IF t.exc = "none" THEN Return("none", t.val, t.st)
    ELSE IF t.exc \in TransportErrors THEN Return(t.exc, sentinel, t.st)
    ELSE Raise(t.exc, t.st)

\* "except Exception as e: ... return <sentinel>", the last clause of every
\* operation.
ExceptException(t, sentinel) ==
    IF t.exc = "none" THEN Return("none", t.val, t.st)
    ELSE IF t.exc \in ExceptionClasses THEN Return(t.exc, sentinel, t.st)
    ELSE Raise(t.exc, t.st)

TryGetSiteProduction(st, site_id, reply, fault) ==
    IF reply.kind # "response" THEN Outcome(reply.kind, NoneVal, st)
    ELSE IF reply.code = 200 THEN
        IF reply.body.shape = "invalid"
        THEN Outcome("ValueError", NoneVal, st)          \* response.json()
        ELSE LET s == _save_production_data(st, site_id, JsonVal(reply.body),
                                            fault)
             IN  IF s.exc # "none" THEN Outcome(s.exc, NoneVal, s.st)
                 ELSE Outcome("none", JsonVal(reply.body), s.st)
    ELSE IF reply.code = 401 THEN Outcome("none", NoneVal, st)
    ELSE IF reply.code = 403 THEN Outcome("none", NoneVal, st)
    ELSE IF reply.code = 404 THEN Outcome("none", NoneVal, st)
    ELSE Outcome("none", NoneVal, st)

get_site_production(st, site_id, reply, fault) ==
    LET t == TryGetSiteProduction(st, site_id, reply, fault) IN
    IF t.exc = "Timeout" THEN Return(t.exc, NoneVal, t.st)
    ELSE IF t.exc = "ConnectionError" THEN Return(t.exc, NoneVal, t.st)
    ELSE ExceptException(t, NoneVal)

TryGetAllSites(st, reply) ==
    IF reply.kind # "response" THEN Outcome(reply.kind, EmptyList, st)
    ELSE IF reply.code = 200 THEN
        IF reply.body.shape = "invalid" THEN Outcome("ValueError", EmptyList, st)
        ELSE IF reply.body.shape # "object"
        THEN Outcome("AttributeError", EmptyList, st)    \* .get('sites', [])
        ELSE IF ~Sized(MemberOrEmpty(reply.body))
        THEN Outcome("TypeError", EmptyList, st)         \* len(sites)
        ELSE Outcome("none", MemberOrEmpty(reply.body), st)
    ELSE Outcome("none", EmptyList, st)

get_all_sites(st, reply) == ExceptException(TryGetAllSites(st, reply), EmptyList)

\* SavedSeverities with the threshold one level lower.
SavedSeverities_withMedium == {"medium", "high", "critical"}

\* Severities of the alerts get_alerts hands to _save_alert.
SavedSeverities == {"high", "critical"}

\* "for alert in alerts" of get_alerts from position i on: [exc, st].
RECURSIVE SaveAlerts(_, _, _, _)
SaveAlerts(st, items, i, faults) ==
    IF i > Len(items) THEN [exc |-> "none", st |-> st]
    ELSE IF ~items[i].isObj
    THEN [exc |-> "AttributeError", st |-> st]           \* alert.get
    ELSE IF items[i].severity.some /\ items[i].severity.v \in SavedSeverities
    THEN LET s == _save_alert(st, items[i], faults[i])
         IN  IF s.exc # "none" THEN s
             ELSE SaveAlerts(s.st, items, i + 1, faults)
    ELSE SaveAlerts(st, items, i + 1, faults)

TryGetAlerts(st, reply, faults) ==
    IF reply.kind # "response" THEN Outcome(reply.kind, EmptyList, st)
    ELSE IF reply.code = 200 THEN
        IF reply.body.shape = "invalid" THEN Outcome("ValueError", EmptyList, st)
        ELSE IF reply.body.shape # "object"
        THEN Outcome("AttributeError", EmptyList, st)    \* .get('alerts', [])
        ELSE IF ~Sized(MemberOrEmpty(reply.body))
        THEN Outcome("TypeError", EmptyList, st)         \* len(alerts)
        ELSE LET r == SaveAlerts(st, reply.body.items, 1, faults)
             IN  Outcome(r.exc, MemberOrEmpty(reply.body), r.st)
    ELSE Outcome("none", EmptyList, st)

get_alerts(st, reply, faults) ==
    ExceptException(TryGetAlerts(st, reply, faults), EmptyList)

\* TryScheduleMaintenance testing for 200 instead of 201.
TryScheduleMaintenance_200(st, reply) ==
    IF reply.kind # "response" THEN Outcome(reply.kind, FalseVal, st)
    ELSE IF reply.code = 200 THEN Outcome("none", TrueVal, st)
    ELSE Outcome("none", FalseVal, st)

TryScheduleMaintenance(st, reply) ==
    IF reply.kind # "response" THEN Outcome(reply.kind, FalseVal, st)
    ELSE IF reply.code = 201 THEN Outcome("none", TrueVal, st)
    ELSE Outcome("none", FalseVal, st)

schedule_maintenance(st, reply) ==
    ExceptException(TryScheduleMaintenance(st, reply), FalseVal)

TryGetProductionStats(st, reply) ==
    IF reply.kind # "response" THEN Outcome(reply.kind, EmptyDict, st)
    ELSE IF reply.code = 200 THEN
        IF reply.body.shape = "invalid" THEN Outcome("ValueError", EmptyDict, st)
        ELSE Outcome("none", JsonVal(reply.body), st)
    ELSE Outcome("none", EmptyDict, st)

get_production_stats(st, reply) ==
    ExceptException(TryGetProductionStats(st, reply), EmptyDict)

TryCheckAnomalies(st, reply) ==
    IF reply.kind # "response" THEN Outcome(reply.kind, EmptyList, st)
    ELSE IF reply.code = 200 THEN
        IF reply.body.shape = "invalid" THEN Outcome("ValueError", EmptyList, st)
        ELSE IF reply.body.shape # "object"
        THEN Outcome("AttributeError", EmptyList, st)    \* .get('anomalies', [])
        ELSE LET anomalies == MemberOrEmpty(reply.body) IN
             IF ~Truthy(anomalies) THEN Outcome("none", anomalies, st)
             ELSE IF ~Sized(anomalies)
             THEN Outcome("TypeError", EmptyList, st)    \* len(anomalies)
             ELSE IF \E i \in 1..Len(anomalies.items) : ~anomalies.items[i].isObj
             THEN Outcome("AttributeError", EmptyList, st) \* anomaly.get
             ELSE Outcome("none", anomalies, st)
    ELSE Outcome("none", EmptyList, st)

check_anomalies(st, reply) ==
    ExceptException(TryCheckAnomalies(st, reply), EmptyList)

-----------------------------------------------------------------------------
(* The state machine. *)

Labels == {"init", "init_failed", "idle",
           "get_all_sites", "get_site_production", "get_alerts",
           "check_anomalies", "site_sleep", "cycle_sleep", "error_sleep",
           "stopped", "aborted"}

\* Labels inside the try block of monitor_all_sites.
TryLabels == {"get_all_sites", "get_site_production", "get_alerts",
              "check_anomalies", "site_sleep", "cycle_sleep"}

\* Labels at which an HTTP request of the loop is in flight.
HttpLabels == {"get_all_sites", "get_site_production", "get_alerts",
               "check_anomalies"}

Intervals == {DefaultInterval}
Minutes   == {4, 5}
NotRead   == -1

CurStore == Store(production_data, alerts, openConns)

NoReply == [kind |-> "none", code |-> 0, body |-> PlainBody("invalid")]
NoUtilCall == [fn |-> "none"]

NoCall  == [op |-> "none", site_id |-> NoId, reply |-> NoReply,
            raised |-> FALSE, exc |-> "none", val |-> NoneVal,
            storeFault |-> FALSE]

\* Whether get_alerts hands the alert to _save_alert.
Savable(alert) ==
    alert.isObj /\ alert.severity.some /\ alert.severity.v \in SavedSeverities

\* The store faults a reply can meet: none where no insert is made.
ProductionFaults(reply) ==
    IF reply.kind = "response" /\ reply.code = 200 /\ reply.body.shape # "invalid"
    THEN StoreFaults ELSE {"none"}

AlertFaults(reply) ==
    IF reply.kind = "response" /\ reply.code = 200
    THEN { f \in [1..Len(reply.body.items) -> StoreFaults] :
             \A i \in 1..Len(reply.body.items) :
                ~Savable(reply.body.items[i]) => f[i] = "none" }
    ELSE { <<>> }

\* The effect of one wrapper operation on the store and on lastCall.  Of the
\* connections it left unclosed, the runtime may already have finalized any
\* number (CPython does when the last reference goes; the language does not
\* say when).
Called(op, site_id, reply, r, storeFault) ==
    /\ production_data' = r.st.production_data
    /\ alerts' = r.st.alerts
    /\ \E c \in openConns..r.st.openConns :
         /\ c <= MaxOpenConns
         /\ openConns' = c
    /\ lastCall' = [op |-> op, site_id |-> site_id, reply |-> reply,
                    raised |-> r.raised, exc |-> r.exc, val |-> r.val,
                    storeFault |-> storeFault]

Init ==
    /\ pc = "init"
    /\ sigint = FALSE
    /\ interval = 0
    /\ sites = <<>>
    /\ idx = 0
    /\ sleepFor = 0
    /\ now_minute = NotRead
    /\ production_data = <<>>
    /\ alerts = <<>>
    /\ openConns = 0
    /\ lastCall = NoCall
    /\ utilCall = NoUtilCall

\* __init__ from its call of _init_database on: an exception leaves the
\* constructor and no monitor exists.
InitDatabase ==
    /\ pc = "init"
    /\ \E fault \in StoreFaults :
         LET r == _init_database(CurStore, fault) IN
         /\ pc' = IF r.raised THEN "init_failed" ELSE "idle"
         /\ \E c \in openConns..r.st.openConns :
              /\ c <= MaxOpenConns
              /\ openConns' = c
    /\ UNCHANGED <<utilCall, sigint, loopVars, production_data, alerts, lastCall>>

(* The operations called directly, as main() does. *)

CallGetSiteProduction ==
    /\ pc = "idle"
    /\ \E site_id \in SiteIdArgs, reply \in ProductionReplies :
         \E fault \in ProductionFaults(reply) :
            Called("get_site_production", site_id, reply,
                   get_site_production(CurStore, site_id, reply, fault),
                   fault # "none" \/ DiskFull(CurStore))
    /\ UNCHANGED <<utilCall, pc, sigint, loopVars>>

CallGetAllSites ==
    /\ pc = "idle"
    /\ \E reply \in SitesReplies :
         Called("get_all_sites", NoId, reply, get_all_sites(CurStore, reply), FALSE)
    /\ UNCHANGED <<utilCall, pc, sigint, loopVars>>

CallGetAlerts ==
    /\ pc = "idle"
    /\ \E reply \in AlertsReplies :
         \E faults \in AlertFaults(reply) :
            Called("get_alerts", NoId, reply, get_alerts(CurStore, reply, faults),
                   FALSE)
    /\ UNCHANGED <<utilCall, pc, sigint, loopVars>>

CallScheduleMaintenance ==
    /\ pc = "idle"
    /\ \E reply \in MaintenanceReplies :
         Called("schedule_maintenance", NoId, reply,
                schedule_maintenance(CurStore, reply), FALSE)
    /\ UNCHANGED <<utilCall, pc, sigint, loopVars>>

CallGetProductionStats ==
    /\ pc = "idle"
    /\ \E reply \in StatsReplies :
         Called("get_production_stats", NoId, reply,
                get_production_stats(CurStore, reply), FALSE)
    /\ UNCHANGED <<utilCall, pc, sigint, loopVars>>

CallCheckAnomalies ==
    /\ pc = "idle"
    /\ \E reply \in AnomalyReplies :
         Called("check_anomalies", NoId, reply,
                check_anomalies(CurStore, reply), FALSE)
    /\ UNCHANGED <<utilCall, pc, sigint, loopVars>>

-----------------------------------------------------------------------------
(* monitor_all_sites.  The operators below give the label control reaches  *)
(* after each call of the loop body; "error_sleep" is the handler          *)
(* "except Exception" of the loop, entered by any exception that leaves    *)
(* the try block.                                                          *)

\* ForSite in a loop without the handler "except Exception": the exception
\* leaves monitor_all_sites.
ForSite_unhandled(l, i) ==
    IF i > Len(l) THEN "cycle_sleep"
    ELSE IF ~l[i].isObj THEN "aborted"
    ELSE "get_site_production"

\* "for site in sites" at position i, up to the call of get_site_production:
\* site.get('id') raises AttributeError when site is not a dict.
ForSite(l, i) ==
    IF i > Len(l) THEN "cycle_sleep"
    ELSE IF ~l[i].isObj THEN "error_sleep"
    ELSE "get_site_production"

\* AfterSites taking an empty list for an error of the cycle.
AfterSites_emptyIsError(r) ==
    IF r.raised \/ r.val.items = <<>> THEN "error_sleep"
    ELSE ForSite(r.val.items, 1)

\* "sites = self.get_all_sites()" and the start of "for site in sites".
AfterSites(r) ==
    IF r.raised THEN "error_sleep" ELSE ForSite(r.val.items, 1)

\* AfterProduction without the guard "if production:": production.get on None.
AfterProduction_unguarded(r) ==
    IF r.raised THEN "error_sleep"
    ELSE IF ~IsDict(r.val) THEN "error_sleep"
    ELSE "get_alerts"

\* "if production:" with production.get(...) inside.
AfterProduction(r) ==
    IF r.raised THEN "error_sleep"
    ELSE IF Truthy(r.val) /\ ~IsDict(r.val) THEN "error_sleep"
    ELSE "get_alerts"

\* AfterAlerts with the test "minute <= 5".
AfterAlerts_inclusive(r, minute) ==
    IF r.raised THEN "error_sleep"
    ELSE IF minute <= AnomalyMinuteThreshold THEN "check_anomalies"
    ELSE "site_sleep"

\* "if alerts:" and "if datetime.now().minute < 5:".
AfterAlerts(r, minute) ==
    IF r.raised THEN "error_sleep"
    ELSE IF minute < AnomalyMinuteThreshold THEN "check_anomalies"
    ELSE "site_sleep"

AfterAnomalies(r) ==
    IF r.raised THEN "error_sleep" ELSE "site_sleep"

\* The argument of the time.sleep a label stands for.
SleepArg(label, ival) ==
    CASE label = "site_sleep"  -> InterSiteDelay
      [] label = "cycle_sleep" -> ival
      [] label = "error_sleep" -> ival
      [] OTHER                 -> 0

\* Labels inside "for site in sites".
ForLabels == {"get_site_production", "get_alerts", "check_anomalies",
              "site_sleep"}

\* Labels of the loop body after "if datetime.now().minute < 5:".
ClockLabels == {"check_anomalies", "site_sleep"}

\* Control moves to label, the for loop running over l at position i, m the
\* minute read for that site.
Goto(label, l, i, m) ==
    /\ pc' = label
    /\ sites' = IF label \in ForLabels THEN l ELSE <<>>
    /\ idx' = IF label \in ForLabels THEN i ELSE 0
    /\ sleepFor' = SleepArg(label, interval)
    /\ now_minute' = IF label \in ClockLabels THEN m ELSE NotRead

StartMonitor ==
    /\ pc = "idle"
    /\ \E ival \in Intervals : interval' = ival
    /\ pc' = "get_all_sites"
    /\ UNCHANGED <<utilCall, sigint, sites, idx, sleepFor, now_minute, storeVars, lastCall>>

FetchSites ==
    /\ pc = "get_all_sites"
    /\ \E reply \in SitesReplies :
         LET r == get_all_sites(CurStore, reply) IN
         /\ Called("get_all_sites", NoId, reply, r, FALSE)
         /\ Goto(AfterSites(r), r.val.items, 1, NotRead)
    /\ UNCHANGED <<utilCall, sigint, interval>>

FetchProduction ==
    /\ pc = "get_site_production"
    /\ \E reply \in ProductionReplies :
         \E fault \in ProductionFaults(reply) :
            LET r == get_site_production(CurStore, sites[idx].id, reply, fault) IN
            /\ Called("get_site_production", sites[idx].id, reply, r,
                      fault # "none" \/ DiskFull(CurStore))
            /\ Goto(AfterProduction(r), sites, idx, NotRead)
    /\ UNCHANGED <<utilCall, sigint, interval>>

FetchAlerts ==
    /\ pc = "get_alerts"
    /\ \E reply \in AlertsReplies, minute \in Minutes :
         \E faults \in AlertFaults(reply) :
            LET r == get_alerts(CurStore, reply, faults) IN
            /\ Called("get_alerts", NoId, reply, r, FALSE)
            /\ Goto(AfterAlerts(r, minute), sites, idx, minute)
    /\ UNCHANGED <<utilCall, sigint, interval>>

CheckAnomalies ==
    /\ pc = "check_anomalies"
    /\ \E reply \in AnomalyReplies :
         LET r == check_anomalies(CurStore, reply) IN
         /\ Called("check_anomalies", NoId, reply, r, FALSE)
         /\ Goto(AfterAnomalies(r), sites, idx, now_minute)
    /\ UNCHANGED <<utilCall, sigint, interval>>

\* SiteSleep in a loop that handles the same entry again.
SiteSleep_repeat ==
    /\ pc = "site_sleep"
    /\ Goto(ForSite(sites, idx), sites, idx, NotRead)
    /\ UNCHANGED <<utilCall, sigint, interval, storeVars, lastCall>>

\* time.sleep(2) returns: the for loop takes the next site.
SiteSleep ==
    /\ pc = "site_sleep"
    /\ Goto(ForSite(sites, idx + 1), sites, idx + 1, NotRead)
    /\ UNCHANGED <<utilCall, sigint, interval, storeVars, lastCall>>

\* time.sleep(interval) at the end of the try block returns: "while True".
CycleSleep ==
    /\ pc = "cycle_sleep"
    /\ Goto("get_all_sites", <<>>, 0, NotRead)
    /\ UNCHANGED <<utilCall, sigint, interval, storeVars, lastCall>>

\* time.sleep(interval) of the handler "except Exception" returns.
ErrorSleep ==
    /\ pc = "error_sleep"
    /\ Goto("get_all_sites", <<>>, 0, NotRead)
    /\ UNCHANGED <<utilCall, sigint, interval, storeVars, lastCall>>

\* OnInterrupt in a loop whose handler is a bare "except:": it takes
\* KeyboardInterrupt for an error and the loop goes on.
OnInterrupt_bareExcept(label) == "error_sleep"

\* Where KeyboardInterrupt, raised at the label, takes control: inside the
\* try block to "except KeyboardInterrupt: break"; in the handler's sleep
\* no try encloses it and it leaves monitor_all_sites.
OnInterrupt(label) ==
    IF label \in TryLabels THEN "stopped" ELSE "aborted"

\* SIGINT: Python raises KeyboardInterrupt in the main thread, inside the
\* blocking call it is in.
Interrupt ==
    /\ pc \in TryLabels \cup {"error_sleep"}
    /\ sigint' = TRUE
    /\ Goto(OnInterrupt(pc), <<>>, 0, NotRead)
    /\ UNCHANGED <<utilCall, interval, storeVars, lastCall>>

Next ==
    \/ InitDatabase
    \/ CallGetSiteProduction
    \/ CallGetAllSites
    \/ CallGetAlerts
    \/ CallScheduleMaintenance
    \/ CallGetProductionStats
    \/ CallCheckAnomalies
    \/ StartMonitor
    \/ FetchSites
    \/ FetchProduction
    \/ FetchAlerts
    \/ CheckAnomalies
    \/ SiteSleep
    \/ CycleSleep
    \/ ErrorSleep
    \/ Interrupt

Spec == Init /\ [][Next]_vars

TypeOK ==
    /\ pc \in Labels
    /\ sigint \in BOOLEAN
    /\ idx \in 0..MaxSites
    /\ openConns \in 0..MaxOpenConns
    /\ now_minute \in Minutes \cup {NotRead}
    /\ Len(production_data) + Len(alerts) <= StoreCapacity

-----------------------------------------------------------------------------
(* src/src/utils.py: pure functions.  A str is a sequence of one-character *)
(* strings; a character outside ASCII is written by its code point         *)
(* ("U+00E9" is e with acute accent, "U+00DF" the German sharp s, "U+D800" *)
(* a lone surrogate, which no codec encodes).                              *)

MaxPayloadLen == 2  \* longest webhook payload
MaxSecretLen  == 1  \* longest webhook secret
DigestHexLen  == 2  \* hexadecimal digits of a digest (64 for SHA-256)
MaxRawIdLen   == 4  \* longest generated argument of format_site_id

HexDigits == <<"0","1","2","3","4","5","6","7","8","9",
               "a","b","c","d","e","f">>

NonAscii == {"U+00E9", "U+00DF", "U+D800"}

\* str.encode('utf-8') of one character: its bytes.
Utf8Char(ch) ==
    CASE ch = "a"      -> <<97>>
      [] ch = "k"      -> <<107>>
      [] ch = "U+00E9" -> <<195, 169>>
      [] OTHER         -> <<>>

\* Whether s.encode('utf-8') returns (it raises UnicodeEncodeError on a
\* lone surrogate).
Encodable(s) == \A i \in 1..Len(s) : s[i] # "U+D800"

RECURSIVE Utf8(_)
Utf8(s) == IF s = <<>> THEN <<>> ELSE Utf8Char(Head(s)) \o Utf8(Tail(s))

\* hashlib.sha256 at the width of DigestHexLen digits: a function of every
\* byte of the input, in order.
RECURSIVE Sha256(_, _)
Sha256(h, bytes) ==
    IF bytes = <<>> THEN h
    ELSE Sha256((h * 33 + Head(bytes) + 1) % (16 ^ DigestHexLen), Tail(bytes))

\* The key block of HMAC combined with a pad byte.
KeyPad(key, pad) == <<pad>> \o [i \in 1..Len(key) |-> (key[i] + pad) % 256]

\* hexdigest(): DigestHexLen lower-case hexadecimal digits.
HexDigest(n) ==
    [i \in 1..DigestHexLen |->
        HexDigits[((n \div (16 ^ (DigestHexLen - i))) % 16) + 1]]

\* hmac.new(key, msg, hashlib.sha256).hexdigest() = H(K^opad || H(K^ipad || msg)).
HmacSha256Hex(key, msg) ==
    LET inner == Sha256(7, KeyPad(key, 54) \o msg)
    IN  HexDigest(Sha256(7, KeyPad(key, 92) \o <<inner>>))

SignaturePrefix == <<"s","h","a","2","5","6","=">>

\* StripPrefix that leaves the header value as it came.
StripPrefix_keep(signature) == signature

\* "if signature.startswith('sha256='): signature = signature[7:]".
StripPrefix(signature) ==
    IF /\ Len(signature) >= Len(SignaturePrefix)
       /\ SubSeq(signature, 1, Len(SignaturePrefix)) = SignaturePrefix
    THEN SubSeq(signature, Len(SignaturePrefix) + 1, Len(signature))
    ELSE signature

\* hmac.compare_digest(a, b) on two str raises TypeError unless both are
\* ASCII.
IsAscii(s) == \A i \in 1..Len(s) : s[i] \notin NonAscii

\* The try block of verify_webhook_signature: [exc, val].
TryVerifyWebhookSignature(payload, signature, secret) ==
    IF ~Encodable(secret) \/ ~Encodable(payload)
    THEN [exc |-> "UnicodeEncodeError", val |-> FALSE]
    ELSE LET expected_signature == HmacSha256Hex(Utf8(secret), Utf8(payload))
             stripped == StripPrefix(signature)
         IN  IF ~IsAscii(stripped)
             THEN [exc |-> "TypeError", val |-> FALSE]
             ELSE [exc |-> "none", val |-> stripped = expected_signature]

\* verify_webhook_signature without the test "if not secret".
verify_webhook_signature_noGuard(payload, signature, secret) ==
    LET t == TryVerifyWebhookSignature(payload, signature, secret) IN
    [raised |-> FALSE, exc |-> t.exc,
     val |-> IF t.exc = "none" THEN t.val ELSE FALSE]

\* verify_webhook_signature(payload, signature, secret): [raised, exc, val].
verify_webhook_signature(payload, signature, secret) ==
    IF secret = <<>>
    THEN [raised |-> FALSE, exc |-> "none", val |-> FALSE]
    ELSE LET t == TryVerifyWebhookSignature(payload, signature, secret) IN
         IF t.exc = "none"
         THEN [raised |-> FALSE, exc |-> "none", val |-> t.val]
         ELSE IF t.exc \in ExceptionClasses
         THEN [raised |-> FALSE, exc |-> t.exc, val |-> FALSE]
         ELSE [raised |-> TRUE, exc |-> t.exc, val |-> FALSE]

Payloads == SeqsUpTo({"a", "U+00E9", "U+D800"}, MaxPayloadLen)
Secrets  == SeqsUpTo({"k", "U+00E9", "U+D800"}, MaxSecretLen)

\* A digest that differs from h in its first digit.
OtherDigest(h) == [h EXCEPT ![1] = IF @ = "0" THEN "1" ELSE "0"]

\* Header values a sender can supply for the payload: the digest under the
\* secret with and without the prefix, another digest, a value that is not
\* ASCII, the bare prefix, nothing.
Signatures(payload, secret) ==
    {<<>>, SignaturePrefix, <<"U+00E9">>}
      \cup IF Encodable(payload) /\ Encodable(secret)
           THEN LET h == HmacSha256Hex(Utf8(secret), Utf8(payload))
                IN  {SignaturePrefix \o h, h, SignaturePrefix \o OtherDigest(h)}
           ELSE {SignaturePrefix \o HexDigest(0)}

(* format_site_id. *)

LowerSeq == <<"a","b","c","d","e","f","g","h","i","j","k","l","m",
              "n","o","p","q","r","s","t","u","v","w","x","y","z">>
UpperSeq == <<"A","B","C","D","E","F","G","H","I","J","K","L","M",
              "N","O","P","Q","R","S","T","U","V","W","X","Y","Z">>
Lower    == { LowerSeq[i] : i \in 1..26 }
Letters  == Upper \cup Lower       \* [a-zA-Z]
Spaces   == {" "}                  \* what str.strip() removes

\* str.upper() of one character: a lower-case letter becomes its capital,
\* the sharp s becomes "SS" (it has no capital of one character).
UpperOfChar(ch) ==
    IF ch \in Lower
    THEN <<UpperSeq[CHOOSE i \in 1..26 : LowerSeq[i] = ch]>>
    ELSE IF ch = "U+00DF" THEN <<"S", "S">>
    ELSE <<ch>>

RECURSIVE StrUpper(_)
StrUpper(s) ==
    IF s = <<>> THEN <<>> ELSE UpperOfChar(Head(s)) \o StrUpper(Tail(s))

\* str.strip().
Strip(s) ==
    LET kept == { i \in 1..Len(s) : s[i] \notin Spaces } IN
    IF kept = {} THEN <<>>
    ELSE SubSeq(s, CHOOSE i \in kept : \A j \in kept : i <= j,
                   CHOOSE i \in kept : \A j \in kept : i >= j)

\* str.zfill(width) of a string of digits.
ZFill(s, width) ==
    IF Len(s) >= width THEN s
    ELSE [i \in 1..(width - Len(s)) |-> "0"] \o s

\* \d+
AllDigits(s) == s # <<>> /\ \A i \in 1..Len(s) : s[i] \in Digits

\* re.match(r'^([a-zA-Z]{3})(\d+)$', s)
MatchesCompact(s) ==
    /\ Len(s) >= 4
    /\ \A i \in 1..3 : s[i] \in Letters
    /\ AllDigits(SubSeq(s, 4, Len(s)))

\* re.match(r'^([a-zA-Z]{3})-(\d+)$', s)
MatchesHyphenated(s) ==
    /\ Len(s) >= 5
    /\ \A i \in 1..3 : s[i] \in Letters
    /\ s[4] = "-"
    /\ AllDigits(SubSeq(s, 5, Len(s)))

\* f"VS-{region}-{number}" with region upper-cased and number zero-filled.
Formatted(region, number) ==
    <<"V", "S", "-">> \o StrUpper(region) \o <<"-">> \o ZFill(number, 3)

format_site_id(raw_id) ==
    IF raw_id = <<>> THEN <<>>
    ELSE LET s == Strip(raw_id) IN
         IF MatchesSiteIdPattern(s) THEN s
         ELSE IF MatchesCompact(s)
         THEN Formatted(SubSeq(s, 1, 3), SubSeq(s, 4, Len(s)))
         ELSE IF MatchesHyphenated(s)
         THEN Formatted(SubSeq(s, 1, 3), SubSeq(s, 5, Len(s)))
         ELSE StrUpper(s)

\* Arguments of format_site_id: the identifiers of the module's self-test,
\* identifiers in upper and lower case, and every string up to MaxRawIdLen
\* over a letter, a letter outside ASCII, a digit, the hyphen and the space.
RawIdChars == {"a", "U+00DF", "1", "-", " "}

RawIds ==
    SeqsUpTo(RawIdChars, MaxRawIdLen) \cup
    { <<"p","d","d","0","0","1">>,
      <<"c","d","f","-","4","2">>,
      <<"V","S","-","L","Y","O","-","0","0","3">>,
      <<"v","s","-","p","d","d","-","0","0","1">>,
      <<"P","d","D","1","2","3","4">>,
      IdPDD001, IdBogus }

(* validate_site_data.  A value of the payload dictionary is absent (the   *)
(* key is not in the dictionary), a str, a number or null.  A str the code *)
(* matches against a pattern is given by its characters (chars), a str it  *)
(* only compares as a whole by a string (s).                               *)

Absent   == [t |-> "absent", s |-> "", chars |-> <<>>, n |-> 0]
Null     == [t |-> "null",   s |-> "", chars |-> <<>>, n |-> 0]
Str(s)   == [t |-> "str",    s |-> s,  chars |-> <<>>, n |-> 0]
Chars(c) == [t |-> "str",    s |-> "", chars |-> c,    n |-> 0]
Num(n)   == [t |-> "num",    s |-> "", chars |-> <<>>, n |-> n]

required_fields == <<"site_id", "power_output_kw", "status">>
valid_statuses  == {"online", "offline", "maintenance", "warning", "error"}

PowerMax       == 10000
TemperatureMin == -40
TemperatureMax == 90
IrradianceMin  == 0
IrradianceMax  == 1400

\* One entry of the list errors: the check that failed and its field.
Err(check, field) == [check |-> check, field |-> field]

\* "for field in required_fields: if field not in data: errors.append(...)".
MissingErrors(data) ==
    LET Missing(field) ==
            IF data[field].t = "absent" THEN <<Err("missing", field)>> ELSE <<>>
    IN  Missing(required_fields[1]) \o Missing(required_fields[2])
          \o Missing(required_fields[3])

\* Whether re.match(pattern, site_id) raises TypeError: site_id is no str.
SiteIdRaises(data) == data.site_id.t \notin {"absent", "str"}

SiteIdErrors(data) ==
    IF data.site_id.t = "str" /\ ~MatchesSiteIdPattern(data.site_id.chars)
    THEN <<Err("format", "site_id")>> ELSE <<>>

PowerErrors(data) ==
    LET power == data.power_output_kw IN
    IF power.t = "absent" THEN <<>>
    ELSE IF power.t # "num" THEN <<Err("type", "power_output_kw")>>
    ELSE IF power.n < 0 THEN <<Err("negative", "power_output_kw")>>
    ELSE IF power.n > PowerMax THEN <<Err("high", "power_output_kw")>>
    ELSE <<>>

StatusErrors(data) ==
    IF data.status.t = "absent" THEN <<>>
    ELSE IF data.status.t = "str" /\ data.status.s \in valid_statuses THEN <<>>
    ELSE <<Err("invalid", "status")>>

\* The checks of the two optional measurements.
RangeErrors(data, field, min, max) ==
    LET v == data[field] IN
    IF v.t = "absent" THEN <<>>
    ELSE IF v.t # "num" THEN <<Err("type", field)>>
    ELSE IF v.n < min \/ v.n > max THEN <<Err("range", field)>>
    ELSE <<>>

\* validate_site_data(data): [raised, exc, is_valid, errors].
validate_site_data(data) ==
    IF SiteIdRaises(data)
    THEN [raised |-> TRUE, exc |-> "TypeError", is_valid |-> FALSE,
          errors |-> <<>>]
    ELSE LET errors ==
                 MissingErrors(data) \o SiteIdErrors(data) \o PowerErrors(data)
                   \o StatusErrors(data)
                   \o RangeErrors(data, "panel_temperature_c",
                                  TemperatureMin, TemperatureMax)
                   \o RangeErrors(data, "irradiance_w_m2",
                                  IrradianceMin, IrradianceMax)
         IN  [raised |-> FALSE, exc |-> "none", is_valid |-> Len(errors) = 0,
              errors |-> errors]

SiteIdValues == {Absent, Chars(IdPDD001), Chars(IdBogus), Null, Num(1)}
PowerValues  == {Absent, Num(-5), Num(0), Num(45), Num(PowerMax),
                 Num(PowerMax + 1), Str("n/a"), Null}
StatusValues == {Absent, Str("online"), Str("error"), Str("bogus"), Null}
TemperatureValues ==
    {Absent, Num(TemperatureMin - 1), Num(TemperatureMin), Num(55),
     Num(TemperatureMax), Num(TemperatureMax + 1), Str("n/a")}
IrradianceValues ==
    {Absent, Num(IrradianceMin - 1), Num(IrradianceMin), Num(IrradianceMax),
     Num(IrradianceMax + 1), Null}

Payload(site_id, power, status, temp, irr) ==
    [site_id |-> site_id, power_output_kw |-> power, status |-> status,
     panel_temperature_c |-> temp, irradiance_w_m2 |-> irr]

(* categorize_alert_severity. *)

PowerDropScore(power_drop_percent) ==
    IF power_drop_percent > 80 THEN 4
    ELSE IF power_drop_percent > 50 THEN 3
    ELSE IF power_drop_percent > 25 THEN 2
    ELSE IF power_drop_percent > 10 THEN 1
    ELSE 0

TemperatureScore(temperature) ==
    IF temperature > 80 THEN 3
    ELSE IF temperature > 70 THEN 2
    ELSE IF temperature > 60 THEN 1
    ELSE 0

\* OfflineScore with the four-hour band worth 4 points.
OfflineScore_fourPoints(offline_duration_minutes) ==
    IF offline_duration_minutes > 240 THEN 4
    ELSE IF offline_duration_minutes > 60 THEN 2
    ELSE IF offline_duration_minutes > 15 THEN 1
    ELSE 0

OfflineScore(offline_duration_minutes) ==
    IF offline_duration_minutes > 240 THEN 3
    ELSE IF offline_duration_minutes > 60 THEN 2
    ELSE IF offline_duration_minutes > 15 THEN 1
    ELSE 0

categorize_alert_severity(power_drop_percent, temperature, offline_duration_minutes) ==
    LET severity_score ==
            PowerDropScore(power_drop_percent) + TemperatureScore(temperature)
              + OfflineScore(offline_duration_minutes)
    IN  IF severity_score >= 8 THEN "critical"
        ELSE IF severity_score >= 5 THEN "high"
        ELSE IF severity_score >= 3 THEN "medium"
        ELSE "low"

\* Arguments on both sides of every threshold, and those of the examples.
PowerDrops      == {5, 10, 11, 25, 26, 50, 51, 80, 81, 85}
Temperatures    == {50, 60, 61, 70, 71, 80, 81, 85}
OfflineMinutes  == {5, 15, 16, 60, 61, 240, 241, 300}

(* The functions called with arguments of the sets above.  The functions  *)
(* keep no state, so a call does not depend on the calls before it: a      *)
(* behaviour is one call, and for format_site_id its applications to what  *)
(* it returned.                                                            *)

VerifyWebhookSignature ==
    /\ utilCall = NoUtilCall
    /\ \E payload \in Payloads, secret \in Secrets :
         \E signature \in Signatures(payload, secret) :
            LET r == verify_webhook_signature(payload, signature, secret) IN
            utilCall' = [fn |-> "verify_webhook_signature",
                         payload |-> payload, signature |-> signature,
                         secret |-> secret,
                         raised |-> r.raised, exc |-> r.exc, val |-> r.val]
    /\ UNCHANGED monitorVars

FormatSiteId ==
    /\ utilCall = NoUtilCall
    /\ \E raw_id \in RawIds :
         utilCall' = [fn |-> "format_site_id", raw_id |-> raw_id,
                      val |-> format_site_id(raw_id)]
    /\ UNCHANGED monitorVars

\* format_site_id applied to what it returned.
FormatSiteIdAgain ==
    /\ utilCall.fn = "format_site_id"
    /\ utilCall' = [fn |-> "format_site_id", raw_id |-> utilCall.val,
                    val |-> format_site_id(utilCall.val)]
    /\ UNCHANGED monitorVars

ValidateSiteData ==
    /\ utilCall = NoUtilCall
    /\ \E site_id \in SiteIdValues, power \in PowerValues,
          status \in StatusValues, temp \in TemperatureValues,
          irr \in IrradianceValues :
         LET data == Payload(site_id, power, status, temp, irr)
             r == validate_site_data(data)
         IN  utilCall' = [fn |-> "validate_site_data", data |-> data,
                          raised |-> r.raised, exc |-> r.exc,
                          is_valid |-> r.is_valid, errors |-> r.errors]
    /\ UNCHANGED monitorVars

CategorizeAlertSeverity ==
    /\ utilCall = NoUtilCall
    /\ \E p \in PowerDrops, t \in Temperatures, m \in OfflineMinutes :
         utilCall' = [fn |-> "categorize_alert_severity",
                      power_drop_percent |-> p, temperature |-> t,
                      offline_duration_minutes |-> m,
                      val |-> categorize_alert_severity(p, t, m)]
    /\ UNCHANGED monitorVars

UtilsNext ==
    \/ VerifyWebhookSignature
    \/ FormatSiteId
    \/ FormatSiteIdAgain
    \/ ValidateSiteData
    \/ CategorizeAlertSeverity

UtilsSpec == Init /\ [][UtilsNext]_vars

-----------------------------------------------------------------------------
(* Properties. *)

\* The value by which an operation signals absence.
Sentinel(op) ==
    CASE op = "get_site_production"  -> NoneVal
      [] op = "get_production_stats" -> EmptyDict
      [] op = "schedule_maintenance" -> FalseVal
      [] OTHER                       -> EmptyList

Terminal == {"stopped", "aborted"}

\* The step in which the call the loop waits in at label returns.
Replied(label) == pc = label /\ pc' \notin {label} \cup Terminal

\* A step that is a call of get_site_production, from main or from the loop.
ProductionStep ==
    /\ lastCall'.op = "get_site_production"
    /\ \/ pc = "idle" /\ pc' = "idle"
       \/ Replied("get_site_production")

\* A step that is a call of get_alerts, from main or from the loop.
AlertsStep ==
    /\ lastCall'.op = "get_alerts"
    /\ \/ pc = "idle" /\ pc' = "idle"
       \/ Replied("get_alerts")

\* C1: a call of the loop that is answered 401 returns its sentinel without
\* raising, and the loop goes on from there: after the site list to the
\* inter-cycle sleep (no site to visit), after a per-site call to the next
\* call for the same site, never to the error handler; and the inter-site
\* sleep is followed by the production fetch of the next site of the list.
C1_Unauthorized401Continues ==
    [][ /\ \A label \in HttpLabels :
             ( /\ Replied(label)
               /\ lastCall'.reply.kind = "response"
               /\ lastCall'.reply.code = 401 )
             => /\ ~lastCall'.raised
                /\ lastCall'.val = Sentinel(lastCall'.op)
                /\ pc' # "error_sleep"
                /\ label = "get_all_sites" => pc' = "cycle_sleep"
                /\ label # "get_all_sites" => idx' = idx /\ sites' = sites
                /\ label = "get_site_production" => pc' = "get_alerts"
                /\ label = "get_alerts" => pc' \in {"check_anomalies", "site_sleep"}
                /\ label = "check_anomalies" => pc' = "site_sleep"
        /\ ( /\ Replied("site_sleep")
             /\ idx < Len(sites)
             /\ sites[idx + 1].isObj )
           => pc' = "get_site_production" /\ idx' = idx + 1 /\ sites' = sites
      ]_vars

\* The loop stands at the second site of the list right after a call for the
\* first site was answered 401.
C1_Witness ==
    /\ pc = "get_site_production"
    /\ idx = 2
    /\ lastCall.op \in {"get_alerts", "check_anomalies"}
    /\ lastCall.reply.kind = "response"
    /\ lastCall.reply.code = 401
    /\ lastCall.val = EmptyList

\* C2: monitor_all_sites ends only by the interrupt signal; an exception
\* that leaves the loop body is followed by one sleep of the configured
\* interval, and what follows that sleep is the site-list fetch of a new
\* cycle (or the end of the loop by the interrupt).
C2_LoopEndsOnlyOnInterrupt ==
    [][ /\ pc' \in Terminal => sigint'
        /\ pc' = "error_sleep" => sleepFor' = interval' /\ interval' \in Intervals
        /\ (pc = "error_sleep" /\ pc' # pc)
             => \/ pc' = "get_all_sites" /\ sleepFor' = 0
                \/ pc' \in Terminal /\ sigint'
      ]_vars

\* An exception left the loop body (site.get on an entry that is no object,
\* production.get on a body that is no object) and the handler sleeps.
C2_Witness ==
    /\ pc = "error_sleep"
    /\ sleepFor = DefaultInterval
    /\ ~sigint
    /\ lastCall.op \in {"get_all_sites", "get_site_production"}

\* C3, as the specification states it: an interrupt that arrives while an
\* HTTP call of the loop is in flight does not end the loop at that point.
C3_InterruptOnlyBetweenIterations ==
    [][ (pc \in HttpLabels /\ ~sigint /\ sigint') => pc' \notin Terminal ]_vars

\* C3, amended: the interrupt is acted on where it arrives.  Inside the try
\* block (an HTTP call in flight, either sleep of the normal path) the loop
\* stops there, the call in progress is abandoned (it returns nothing and
\* stores nothing); in the sleep of the error handler the interrupt leaves
\* monitor_all_sites as an exception.  Nothing of the loop runs afterwards.
C3_InterruptActsImmediately ==
    [][ /\ (~sigint /\ sigint')
           => /\ pc \in TryLabels => pc' = "stopped"
              /\ pc = "error_sleep" => pc' = "aborted"
              /\ pc \in TryLabels \cup {"error_sleep"}
              /\ UNCHANGED <<production_data, alerts, lastCall>>
        /\ sigint => pc' = pc
      ]_vars

\* The loop was stopped by an interrupt while the production fetch of the
\* first site was in flight (the site list was the last call to return).
C3_Witness ==
    /\ pc = "stopped"
    /\ sigint
    /\ lastCall.op = "get_all_sites"
    /\ Len(lastCall.val.items) > 0
    /\ lastCall.val.items[1].isObj

\* C4: no wrapper operation lets an exception out, and on every failure
\* outcome (no response: timeout, connection error, other transport error;
\* a status outside 2xx, 401, 403 and 404 among them; an exception raised
\* while the response is handled) it returns its sentinel.
FailureOutcome(c) ==
    \/ c.reply.kind # "response"
    \/ c.reply.code \in {401, 403, 404}
    \/ c.reply.code \notin 200..299
    \/ c.exc # "none"

C4_WrapperNeverRaises ==
    lastCall.op # "none" =>
        /\ ~lastCall.raised
        /\ FailureOutcome(lastCall) => lastCall.val = Sentinel(lastCall.op)

\* get_alerts met an alert that is no object after it had stored one: the
\* AttributeError was caught and the empty list returned.
C4_Witness ==
    /\ lastCall.op = "get_alerts"
    /\ lastCall.reply.code = 200
    /\ lastCall.exc = "AttributeError"
    /\ lastCall.val = EmptyList
    /\ Len(alerts) = 1

\* The status an operation takes for success.
SuccessCode(op) == IF op = "schedule_maintenance" THEN 201 ELSE 200

\* Whether the body has the JSON shape the operation reads: any JSON value
\* for get_site_production and get_production_stats; for the other reads
\* an object whose member, if present, is a list (of objects for get_alerts
\* and check_anomalies; check_anomalies also passes a null member on).
\* schedule_maintenance does not read the body.
ExpectedShape(op, body) ==
    CASE op \in {"get_site_production", "get_production_stats"} ->
            body.shape # "invalid"
      [] op = "get_all_sites" ->
            body.shape = "object" /\ body.member \in {"absent", "list"}
      [] op = "get_alerts" ->
            /\ body.shape = "object" /\ body.member \in {"absent", "list"}
            /\ \A i \in 1..Len(body.items) : body.items[i].isObj
      [] op = "check_anomalies" ->
            /\ body.shape = "object" /\ body.member \in {"absent", "list", "null"}
            /\ \A i \in 1..Len(body.items) : body.items[i].isObj
      [] OTHER -> TRUE

\* What the operation returns for the body on success.
SuccessValue(op, body) ==
    CASE op \in {"get_site_production", "get_production_stats"} -> JsonVal(body)
      [] op = "schedule_maintenance" -> TrueVal
      [] body.member = "list" -> ListVal(body.items)
      [] body.member = "null" -> NoneVal
      [] OTHER -> EmptyList

\* C5, as the specification states it: every operation takes a 200 and a
\* 201 alike for success and returns the parsed body.
C5_Status200Or201IsSuccess ==
    ( /\ lastCall.op # "none"
      /\ lastCall.reply.kind = "response"
      /\ lastCall.reply.code \in {200, 201}
      /\ ExpectedShape(lastCall.op, lastCall.reply.body) )
    => lastCall.val = SuccessValue(lastCall.op, lastCall.reply.body)

\* C5, amended: each operation has one success status, 200 for the five
\* reads and 201 for schedule_maintenance.  A response with that status and
\* a body of the expected shape returns the parsed body (its sites, alerts
\* or anomalies member for the list operations, True for
\* schedule_maintenance); the other status of the two returns the sentinel.
C5_OneSuccessStatusPerOperation ==
    ( /\ lastCall.op # "none"
      /\ lastCall.reply.kind = "response"
      /\ lastCall.reply.code \in {200, 201} )
    => /\ ~lastCall.raised
       /\ ( /\ lastCall.reply.code = SuccessCode(lastCall.op)
            /\ ExpectedShape(lastCall.op, lastCall.reply.body) )
          => lastCall.val = SuccessValue(lastCall.op, lastCall.reply.body)
       /\ lastCall.reply.code # SuccessCode(lastCall.op)
          => lastCall.val = Sentinel(lastCall.op)

\* schedule_maintenance was answered 201 and returned True.
C5_Witness ==
    /\ lastCall.op = "schedule_maintenance"
    /\ lastCall.reply.code = 201
    /\ lastCall.val = TrueVal

\* C6: every stored snapshot and every stored alert has a site ID of the
\* form VS-[A-Z]{3}-\d{3}.
C6_PersistedSiteIdsValid ==
    /\ \A i \in 1..Len(production_data) :
          MatchesSiteIdPattern(production_data[i].site_id)
    /\ \A i \in 1..Len(alerts) : MatchesSiteIdPattern(alerts[i].site_id)

\* The row get_site_production(site_id) stores.
SnapshotRow(site_id) == [site_id |-> site_id.v]

\* C7, as the specification states it: a production fetch answered 200
\* appends one row for the fetched site, any other adds none.
C7_OneRowPerSuccessfulFetch ==
    [][ /\ ProductionStep =>
             IF lastCall'.reply.kind = "response" /\ lastCall'.reply.code = 200
             THEN production_data' = Append(production_data, SnapshotRow(lastCall'.site_id))
             ELSE production_data' = production_data
        /\ ~ProductionStep => production_data' = production_data
      ]_vars

\* A production fetch that puts a row into the store: answered 200 with a
\* JSON object, for a site ID that is not None, the insert not failed by
\* SQLite.
FetchStores(c) ==
    /\ c.reply.kind = "response" /\ c.reply.code = 200
    /\ c.reply.body.shape = "object"
    /\ c.site_id.some
    /\ ~c.storeFault

\* C7, amended: the snapshot table is an append-only log with at most one
\* row per production fetch, in fetch order: a fetch appends one row for
\* the fetched site exactly when it is answered 200 with a JSON object, the
\* site ID is not None and the insert does not fail; any other fetch, and
\* any other operation, leaves the table as it is.
C7_AppendOnlyOneRowPerStoredFetch ==
    [][ /\ ProductionStep =>
             IF FetchStores(lastCall')
             THEN production_data' = Append(production_data, SnapshotRow(lastCall'.site_id))
             ELSE production_data' = production_data
        /\ ~ProductionStep => production_data' = production_data
      ]_vars

\* Two fetches were stored, in fetch order, the second by the last call.
C7_Witness ==
    /\ Len(production_data) = 2
    /\ production_data[1] # production_data[2]
    /\ lastCall.op = "get_site_production"
    /\ production_data[2] = SnapshotRow(lastCall.site_id)

\* Number of alerts of severity high or critical among the objects of a list.
RECURSIVE HighOrCritical(_)
HighOrCritical(items) ==
    IF items = <<>> THEN 0
    ELSE (IF /\ Head(items).isObj
             /\ Head(items).severity.some
             /\ Head(items).severity.v \in {"high", "critical"}
          THEN 1 ELSE 0) + HighOrCritical(Tail(items))

\* C8: every row of the alerts table has severity high or critical and the
\* resolved flag unset; an operation adds at most as many rows as the
\* response holds alerts of severity high or critical, each equal to one of
\* them, and none unless it is get_alerts answered 200.
C8_OnlyHighOrCriticalStored ==
    /\ [](\A i \in 1..Len(alerts) :
             alerts[i].severity \in {"high", "critical"} /\ ~alerts[i].resolved)
    /\ [][ \/ alerts' = alerts
           \/ /\ AlertsStep
              /\ lastCall'.reply.kind = "response" /\ lastCall'.reply.code = 200
              /\ Len(alerts') > Len(alerts)
              /\ SubSeq(alerts', 1, Len(alerts)) = alerts
              /\ Len(alerts') - Len(alerts) <= HighOrCritical(lastCall'.reply.body.items)
              /\ \A i \in (Len(alerts) + 1)..Len(alerts') :
                    \E j \in 1..Len(lastCall'.reply.body.items) :
                       LET a == lastCall'.reply.body.items[j] IN
                       /\ a.isObj /\ a.severity.some /\ a.site_id.some
                       /\ a.severity.v \in {"high", "critical"}
                       /\ alerts'[i].severity = a.severity.v
                       /\ alerts'[i].site_id = a.site_id.v
         ]_vars

\* A response with a medium and a critical alert left one row, the critical.
C8_Witness ==
    /\ lastCall.op = "get_alerts"
    /\ lastCall.reply.code = 200
    /\ Len(lastCall.reply.body.items) = 2
    /\ lastCall.reply.body.items[1].severity = SomeStr("medium")
    /\ lastCall.reply.body.items[2].severity = SomeStr("critical")
    /\ Len(alerts) = 1
    /\ alerts[1].severity = "critical"

\* C9: an insert that fails does not disturb its caller.  A production
\* fetch answered 200 with a JSON object whose insert stored nothing still
\* returns the body, and the loop goes on to the alerts of the same site; a
\* get_alerts answered 200 with a list of alert objects of which fewer were
\* stored than are high or critical still returns the whole list, and the
\* loop goes on with the same site.  No exception leaves either operation.
C9_InsertFailureSwallowed ==
    [][ /\ ( /\ ProductionStep
             /\ lastCall'.reply.kind = "response" /\ lastCall'.reply.code = 200
             /\ lastCall'.reply.body.shape = "object"
             /\ production_data' = production_data )
           => /\ ~lastCall'.raised /\ lastCall'.exc = "none"
              /\ lastCall'.val = JsonVal(lastCall'.reply.body)
              /\ Replied("get_site_production")
                   => pc' = "get_alerts" /\ idx' = idx /\ sites' = sites
        /\ ( /\ AlertsStep
             /\ lastCall'.reply.kind = "response" /\ lastCall'.reply.code = 200
             /\ ExpectedShape("get_alerts", lastCall'.reply.body)
             /\ Len(alerts') - Len(alerts) < HighOrCritical(lastCall'.reply.body.items) )
           => /\ ~lastCall'.raised /\ lastCall'.exc = "none"
              /\ lastCall'.val = ListVal(lastCall'.reply.body.items)
              /\ Replied("get_alerts")
                   => /\ pc' \in {"check_anomalies", "site_sleep"}
                      /\ idx' = idx /\ sites' = sites
      ]_vars

\* Of two alerts to store the first insert failed and the second, processed
\* after it, is the only row; get_alerts returned both alerts.
C9_Witness ==
    /\ lastCall.op = "get_alerts"
    /\ lastCall.reply.code = 200
    /\ Len(lastCall.reply.body.items) = 2
    /\ lastCall.reply.body.items[1].severity = SomeStr("high")
    /\ lastCall.reply.body.items[2].severity = SomeStr("critical")
    /\ lastCall.val = ListVal(lastCall.reply.body.items)
    /\ Len(alerts) = 1
    /\ alerts[1].severity = "critical"
    /\ production_data = <<>>

\* C10: no store connection is open once the store operation that opened it
\* has returned: between operations none is open.
C10_NoConnectionLeftOpen == openConns = 0

\* C11: the anomaly check is issued at most once for a site of a cycle, and
\* exactly when the minute read for that site is below the threshold.  The
\* minute is read once per site, when get_alerts has returned; the call of
\* check_anomalies is issued at that step and at no other, if and only if
\* the minute is below 5 (otherwise the inter-site sleep follows at once);
\* and when that call returns, the inter-site sleep follows, after which the
\* for loop is at the next entry or the cycle is over.
C11_AnomalyCheckOnlyBelowThreshold ==
    [][ /\ Replied("get_alerts")
           => /\ now_minute = NotRead /\ now_minute' \in Minutes
              /\ idx' = idx /\ sites' = sites
              /\ pc' = "check_anomalies" <=> now_minute' < AnomalyMinuteThreshold
              /\ now_minute' >= AnomalyMinuteThreshold => pc' = "site_sleep"
        /\ pc' = "check_anomalies" => pc = "get_alerts"
        /\ Replied("check_anomalies")
           => /\ pc' = "site_sleep" /\ idx' = idx /\ sites' = sites
              /\ now_minute' = now_minute
        /\ now_minute # NotRead
           => \/ now_minute' = now_minute /\ idx' = idx /\ sites' = sites
              \/ now_minute' = NotRead /\ pc' \notin ForLabels
              \/ now_minute' = NotRead /\ idx' = idx + 1 /\ sites' = sites
      ]_vars

\* The second site of the list had its anomaly check, the minute read for it
\* being 4, and the loop is in the sleep that follows.
C11_Witness ==
    /\ pc = "site_sleep"
    /\ idx = 2
    /\ now_minute = 4
    /\ lastCall.op = "check_anomalies"

\* C12: no call is retried within a cycle.  The production fetch of an
\* entry is issued once, when the for loop arrives at the entry: at the
\* first entry when the site list has been fetched, at the next entry when
\* the 2-second sleep after the entry before it has returned.  The alerts
\* fetch of an entry is issued once, when its production fetch has returned,
\* whatever that returned.  The 2-second sleep follows the last call for the
\* entry.  Each of these steps is one request for the entry the loop is at,
\* and the list the loop runs over is the one fetched for the cycle.
C12_NoCallLevelRetry ==
    [][ /\ pc' = "get_site_production"
           => \/ /\ pc = "get_all_sites"
                 /\ idx' = 1 /\ sites' = lastCall'.val.items
              \/ /\ pc = "site_sleep" /\ sleepFor = InterSiteDelay
                 /\ idx' = idx + 1 /\ sites' = sites
        /\ pc' = "get_alerts"
           => /\ pc = "get_site_production"
              /\ idx' = idx /\ sites' = sites
              /\ lastCall'.op = "get_site_production"
              /\ lastCall'.site_id = sites[idx].id
        /\ pc' = "site_sleep"
           => /\ pc \in {"get_alerts", "check_anomalies"}
              /\ idx' = idx /\ sites' = sites
              /\ sleepFor' = InterSiteDelay
              /\ lastCall'.op = pc
        /\ \A label \in HttpLabels :
              (Replied(label) /\ FailureOutcome(lastCall')) => pc' # label
      ]_vars

\* The alerts fetch of the first entry timed out; the loop went on through
\* the 2-second sleep to the production fetch of the second entry.
C12_Witness ==
    /\ pc = "get_site_production"
    /\ idx = 2
    /\ lastCall.op = "get_alerts"
    /\ lastCall.reply.kind = "Timeout"

\* C13: when get_all_sites returns the empty list, be it the list the API
\* sent or the sentinel of a failed fetch, the cycle makes no per-site call
\* and stores nothing: the inter-cycle sleep of the configured interval
\* follows at once, and when it returns the next step is the site-list
\* fetch of the next cycle.
C13_EmptySiteListCycle ==
    [][ /\ ( /\ Replied("get_all_sites")
             /\ lastCall'.val = EmptyList )
           => /\ lastCall'.op = "get_all_sites" /\ ~lastCall'.raised
              /\ pc' = "cycle_sleep"
              /\ sleepFor' = interval /\ interval \in Intervals
              /\ sites' = <<>>
              /\ UNCHANGED <<production_data, alerts>>
        /\ Replied("cycle_sleep")
           => /\ pc' = "get_all_sites" /\ sleepFor' = 0
              /\ UNCHANGED <<production_data, alerts, lastCall>>
      ]_vars

\* The site-list fetch failed with a connection error, get_all_sites
\* returned the empty sentinel and the loop is in the inter-cycle sleep.
C13_Witness ==
    /\ pc = "cycle_sleep"
    /\ sleepFor = DefaultInterval
    /\ lastCall.op = "get_all_sites"
    /\ lastCall.reply.kind = "ConnectionError"
    /\ lastCall.val = EmptyList

\* C19: a cycle that no interrupt ends processes every entry of the fetched
\* list: when the list has been fetched the production fetch of the first
\* entry is issued; when a production fetch has returned the alerts fetch of
\* the same entry is issued; when the calls for an entry are done the
\* 2-second sleep follows, and after it the production fetch of the next
\* entry, if there is one.
C19_EverySiteProcessed ==
    [][ /\ (Replied("get_all_sites") /\ lastCall'.val.items # <<>>)
           => pc' = "get_site_production" /\ idx' = 1
        /\ Replied("get_site_production")
           => pc' = "get_alerts" /\ idx' = idx /\ sites' = sites
        /\ Replied("get_alerts")
           => pc' \in ClockLabels /\ idx' = idx /\ sites' = sites
        /\ Replied("check_anomalies")
           => pc' = "site_sleep" /\ idx' = idx /\ sites' = sites
        /\ (Replied("site_sleep") /\ idx < Len(sites))
           => pc' = "get_site_production" /\ idx' = idx + 1 /\ sites' = sites
      ]_vars

-----------------------------------------------------------------------------
(* Properties of the functions of utils.py, under UtilsSpec. *)

\* The call is the round trip: the signature is "sha256=" followed by the
\* HMAC-SHA256 of the payload under the secret of the call.
RoundTrip(c) ==
    /\ c.fn = "verify_webhook_signature"
    /\ Encodable(c.payload) /\ Encodable(c.secret)
    /\ c.signature =
          SignaturePrefix \o HmacSha256Hex(Utf8(c.secret), Utf8(c.payload))

\* C14, as the specification states it: the round trip returns True for any
\* payload and any secret.
C14_SignatureRoundTrip ==
    RoundTrip(utilCall) => ~utilCall.raised /\ utilCall.val

\* C14, amended: the round trip returns True for any payload and any secret
\* that is not empty.
C14_RoundTripNonEmptySecret ==
    (RoundTrip(utilCall) /\ utilCall.secret # <<>>)
    => ~utilCall.raised /\ utilCall.val

\* A payload with a character outside ASCII, signed and verified under the
\* secret "k".
C14_Witness ==
    /\ RoundTrip(utilCall)
    /\ utilCall.secret = <<"k">>
    /\ utilCall.payload = <<"a", "U+00E9">>
    /\ utilCall.val

\* C15: verification fails closed.  No exception leaves
\* verify_webhook_signature; with the empty secret it returns False for
\* every payload and every signature; and a call in which the computation
\* or the comparison raises (a payload or secret that cannot be encoded, a
\* signature that is not ASCII) returns False.
C15_FailsClosed ==
    utilCall.fn = "verify_webhook_signature" =>
        /\ ~utilCall.raised
        /\ utilCall.secret = <<>> => ~utilCall.val
        /\ utilCall.exc # "none" => ~utilCall.val
        /\ ( \/ ~Encodable(utilCall.payload)
             \/ ~Encodable(utilCall.secret)
             \/ ~IsAscii(utilCall.signature) ) => ~utilCall.val

\* The signature is the HMAC of the payload under the empty key, the secret
\* is empty, and the function returned False.
C15_Witness ==
    /\ RoundTrip(utilCall)
    /\ utilCall.secret = <<>>
    /\ utilCall.payload # <<>>
    /\ ~utilCall.raised /\ ~utilCall.val

\* C16: format_site_id applied to what it returned returns the same; an
\* argument of the form VS-[A-Z]{3}-\d{3} is returned as it is; three
\* letters followed by digits, with or without a hyphen between them,
\* become VS-, the letters in upper case, a hyphen and the digits filled
\* with zeros to three.
C16_FormatSiteIdIdempotent ==
    [][ utilCall'.fn = "format_site_id" =>
          LET x == utilCall'.raw_id
              y == utilCall'.val
          IN  /\ (utilCall.fn = "format_site_id" /\ x = utilCall.val)
                    => y = utilCall.val
              /\ MatchesSiteIdPattern(x) => y = x
              /\ MatchesCompact(x)
                    => y = <<"V","S","-">> \o StrUpper(SubSeq(x, 1, 3))
                             \o <<"-">> \o ZFill(SubSeq(x, 4, Len(x)), 3)
              /\ MatchesHyphenated(x)
                    => y = <<"V","S","-">> \o StrUpper(SubSeq(x, 1, 3))
                             \o <<"-">> \o ZFill(SubSeq(x, 5, Len(x)), 3)
              /\ x = <<"p","d","d","0","0","1">> => y = IdPDD001
              /\ x = <<"c","d","f","-","4","2">>
                    => y = <<"V","S","-","C","D","F","-","0","4","2">>
      ]_vars

\* The elements of a list.
Range(seq) == { seq[i] : i \in 1..Len(seq) }

\* The errors the checks of the specification find in a payload, each check
\* on its own.
ExpectedErrors(data) ==
    { Err("missing", f) : f \in { g \in Range(required_fields) :
                                     data[g].t = "absent" } }
      \cup { Err("format", "site_id") : x \in
               { d \in {data.site_id} :
                   /\ d.t # "absent"
                   /\ ~(d.t = "str" /\ MatchesSiteIdPattern(d.chars)) } }
      \cup { Err("type", f) : f \in
               { g \in {"power_output_kw", "panel_temperature_c",
                        "irradiance_w_m2"} :
                   data[g].t \notin {"absent", "num"} } }
      \cup { Err("negative", "power_output_kw") : x \in
               { d \in {data.power_output_kw} : d.t = "num" /\ d.n < 0 } }
      \cup { Err("high", "power_output_kw") : x \in
               { d \in {data.power_output_kw} : d.t = "num" /\ d.n > 10000 } }
      \cup { Err("invalid", "status") : x \in
               { d \in {data.status} :
                   /\ d.t # "absent"
                   /\ ~(d.t = "str" /\ d.s \in {"online", "offline",
                           "maintenance", "warning", "error"}) } }
      \cup { Err("range", "panel_temperature_c") : x \in
               { d \in {data.panel_temperature_c} :
                   d.t = "num" /\ (d.n < -40 \/ d.n > 90) } }
      \cup { Err("range", "irradiance_w_m2") : x \in
               { d \in {data.irradiance_w_m2} :
                   d.t = "num" /\ (d.n < 0 \/ d.n > 1400) } }

\* C17: for every payload validate_site_data returns a pair (is_valid,
\* errors), is_valid being True exactly when errors is empty, and errors
\* holding one error for each check that fails, whatever the other checks
\* find; the payload {power_output_kw: -5, status: "bogus"} yields the three
\* errors missing site_id, negative power, invalid status, and the payload
\* {site_id: "VS-PDD-001", power_output_kw: 45, status: "online"} yields
\* (True, []).
C17_ValidateAccumulatesAllErrors ==
    utilCall.fn = "validate_site_data" =>
        /\ ~utilCall.raised
        /\ utilCall.is_valid <=> utilCall.errors = <<>>
        /\ Range(utilCall.errors) = ExpectedErrors(utilCall.data)
        /\ Len(utilCall.errors) = Cardinality(ExpectedErrors(utilCall.data))
        /\ utilCall.data = Payload(Absent, Num(-5), Str("bogus"), Absent, Absent)
             => utilCall.errors = << Err("missing", "site_id"),
                                     Err("negative", "power_output_kw"),
                                     Err("invalid", "status") >>
        /\ utilCall.data = Payload(Chars(IdPDD001), Num(45), Str("online"),
                                   Absent, Absent)
             => utilCall.is_valid /\ utilCall.errors = <<>>

\* The points a measurement scores: the number of thresholds it exceeds.
Points(x, thresholds) == Cardinality({ th \in thresholds : x > th })

\* C18: the severity is decided by the sum of the points of the power drop
\* (thresholds 10, 25, 50, 80), of the temperature (60, 70, 80) and of the
\* offline duration (15, 60, 240): critical from 8, high from 5, medium
\* from 3, low below; (85, 85, 300) is critical and (5, 50, 5) is low.
C18_SeverityIsAdditiveScore ==
    utilCall.fn = "categorize_alert_severity" =>
        LET score == Points(utilCall.power_drop_percent, {10, 25, 50, 80})
                       + Points(utilCall.temperature, {60, 70, 80})
                       + Points(utilCall.offline_duration_minutes, {15, 60, 240})
        IN  /\ score \in 0..10
            /\ utilCall.val = IF score >= 8 THEN "critical"
                              ELSE IF score >= 5 THEN "high"
                              ELSE IF score >= 3 THEN "medium"
                              ELSE "low"
            /\ ( /\ utilCall.power_drop_percent = 85
                 /\ utilCall.temperature = 85
                 /\ utilCall.offline_duration_minutes = 300 )
               => score = 10 /\ utilCall.val = "critical"
            /\ ( /\ utilCall.power_drop_percent = 5
                 /\ utilCall.temperature = 50
                 /\ utilCall.offline_duration_minutes = 5 )
               => score = 0 /\ utilCall.val = "low"

\* A power drop of 81 %, a temperature of 61 C and 16 minutes offline score
\* 4 + 1 + 1 = 6: high.
C18_Witness ==
    /\ utilCall.fn = "categorize_alert_severity"
    /\ utilCall.power_drop_percent = 81
    /\ utilCall.temperature = 61
    /\ utilCall.offline_duration_minutes = 16
    /\ utilCall.val = "high"

====
